---- MODULE Spec2Model ----
(***************************************************************************)
(* Direct-messaging subsystem of the project-management application:       *)
(* src/project_manager/messages_api.py (send, conversation fetch, mark     *)
(* read, unread count) over the shared Message table, together with the    *)
(* announcement writers of src/project_manager/views.py that put           *)
(* non-direct rows into the same table.                                    *)
(*                                                                         *)
(* Each request handler is one atomic action.  Time is the value returned  *)
(* by timezone.now(), in seconds.  The pub/sub broker is the environment:  *)
(* it is reachable, refuses connections, or answers too late.              *)
(***************************************************************************)
EXTENDS Integers, Sequences, FiniteSets, TLC

\* ------------------------------------------------------------------ bounds
NumUsers == 2
MaxMsgs == 2
MaxTime == 6
NumWorkers == 2

\* ------------------------------------------------------- program constants
\* timezone.timedelta(seconds=5)
DedupWindow == 5

Users == 1..NumUsers
\* a user id that matches no row of the User table
NoSuchUser == NumUsers + 1
\* recipient_id as it arrives in the JSON body: 0 stands for a missing or
\* falsy value (None, 0, ""), which `not recipient_id` rejects
RecipientInputs == 0..NoSuchUser
\* user_id as it arrives in the URL
UserIdInputs == 1..NoSuchUser

\* the users that pass is_project_manager
Managers == {1}
\* the active members of the managers' projects
Teams == {Users}

Whitespace == {" ", "\t"}
\* request bodies' "content", as sequences of characters
RawContents ==
  { <<>>, <<" ">>, <<"a">>, <<" ", "a", "\t">>, <<"b", " ">> }
\* the contents the requests of Next carry: each of the above is one of them
\* once trimmed
SentContents == { <<" ">>, <<" ", "a", "\t">>, <<"b", " ">> }
\* content of the rows written by the announcement flows
AnnouncementContents == { <<"a">> }
\* the clock advances between requests by one of these amounts (seconds)
TickSteps == {3, 5}

\* the broker as a command finds it: "up" answers, "down" refuses the
\* connection, "slow" answers after socket_timeout
BrokerStates == {"up", "down", "slow"}

\* the worker threads that serve requests side by side
Workers == 1..NumWorkers

VARIABLES
  msgs,             \* the Message table: row i has primary key i
  now,              \* timezone.now()
  resp,             \* the JsonResponse of the last request
  last,             \* the last successful send: what it returned and when
  REDIS_AVAILABLE,  \* the module-level flag set at import
  broker,           \* the state of the pub/sub broker
  published,        \* the PUBLISH commands the last step sent to the broker
  inflight,         \* the sends in progress, one per worker thread
  users,            \* the User table: the name fields of each row
  presence          \* the users whose key user_online_<id> the broker holds

vars ==
  <<msgs, now, resp, last, REDIS_AVAILABLE, broker, published, inflight,
    users, presence>>

\* ----------------------------------------------------------------- helpers
RECURSIVE LStrip(_)
LStrip(s) ==
  IF s # <<>> /\ Head(s) \in Whitespace THEN LStrip(Tail(s)) ELSE s

RECURSIVE RStrip(_)
RStrip(s) ==
  IF s # <<>> /\ s[Len(s)] \in Whitespace
  THEN RStrip(SubSeq(s, 1, Len(s) - 1))
  ELSE s

\* the .strip() call left out
Strip_Identity(s) == s

\* str.strip()
Strip(s) == RStrip(LStrip(s))

\* User.objects.filter(id=...).first() instead of get(): never DoesNotExist
UserExists_Always(id) == TRUE

\* User.objects.get(id=...) finds a row
UserExists(id) == id \in Users

\* BooleanField default of Message.is_read
DefaultIsRead == FALSE

\* primary key given to a newly inserted row
NextId(ms) == Len(ms) + 1

Min(S) == CHOOSE x \in S : \A y \in S : x <= y

\* no response yet (or the clock moved on since the last one)
Idle ==
  [op |-> "idle", status |-> 0, id |-> 0, ts |-> 0, ids |-> <<>>, count |-> 0,
   initials |-> <<>>, online |-> FALSE]

NoSend == [id |-> 0, rcpt |-> 0, at |-> 0]

\* a worker that is serving no send
NoRequest ==
  [pc |-> "idle", sender |-> 0, recipient |-> 0, content |-> <<>>,
   existing |-> 0, id |-> 0, created_at |-> 0]

\* ------------------------------------------------------------------- names
\* names are sequences of characters; "sz" stands for the one letter U+00DF,
\* whose capital is the two letters SS
FirstNames == { <<>>, <<"A", "n", "a">>, <<"a", "l">> }
LastNames == { <<>>, <<"L", "e", "e">> }
Usernames == { <<"j", "d", "o", "e">>, <<"a", "l">>, <<"sz">> }

\* the rows a User may be
Profiles ==
  [first_name : FirstNames, last_name : LastNames, username : Usernames]

\* the User table the process starts with: user 1 has both names, the others
\* have a username only
DefaultUsers ==
  [u \in Users |->
     IF u = 1
     THEN [first_name |-> <<"A", "n", "a">>, last_name |-> <<"L", "e", "e">>,
           username |-> <<"a", "l">>]
     ELSE [first_name |-> <<>>, last_name |-> <<>>,
           username |-> <<"j", "d", "o", "e">>]]

\* str.upper() left out
Upper_Identity(ch) == <<ch>>

\* str.upper() of one character
Upper(ch) ==
  CASE ch = "a" -> <<"A">>
    [] ch = "d" -> <<"D">>
    [] ch = "e" -> <<"E">>
    [] ch = "j" -> <<"J">>
    [] ch = "l" -> <<"L">>
    [] ch = "n" -> <<"N">>
    [] ch = "o" -> <<"O">>
    [] ch = "sz" -> <<"S", "S">>
    [] OTHER -> <<ch>>

\* str.upper()
RECURSIVE UpperStr(_)
UpperStr(s) ==
  IF s = <<>> THEN <<>> ELSE Upper(Head(s)) \o UpperStr(Tail(s))

\* the slice s[:n]
Slice(s, n) == SubSeq(s, 1, IF Len(s) < n THEN Len(s) ELSE n)

\* "initials" of a message view in get_conversation_messages
MessageInitials(u) ==
  IF u.first_name # <<>> /\ u.last_name # <<>>
  THEN UpperStr(Slice(u.first_name, 1) \o Slice(u.last_name, 1))
  ELSE UpperStr(Slice(u.username, 2))

\* "initials" of other_user in get_conversation_messages
SummaryInitials(u) ==
  IF u.first_name # <<>> /\ u.last_name # <<>>
  THEN UpperStr(Slice(u.first_name, 1) \o Slice(u.last_name, 1))
  ELSE UpperStr(Slice(u.username, 2))

\* the username taken whatever the names are
PayloadInitials_UsernameOnly(u) == UpperStr(Slice(u.username, 2))

\* "initials" of the payload of publish_message
PayloadInitials(u) ==
  IF u.first_name # <<>> /\ u.last_name # <<>>
  THEN UpperStr(Slice(u.first_name, 1) \o Slice(u.last_name, 1))
  ELSE UpperStr(Slice(u.username, 2))

\* the three places that show a user's initials, each applied to the row of
\* user u: a message view whose sender is u, the summary of the other party
\* u, and the payload of a message sent by u
ShowInMessage(u) ==
  /\ resp' = [Idle EXCEPT !.op = "view", !.status = 200, !.id = u,
                          !.initials = MessageInitials(users[u])]
  /\ published' = <<>>
  /\ UNCHANGED <<msgs, now, last, REDIS_AVAILABLE, broker, inflight,
                 users, presence>>

ShowInSummary(u) ==
  /\ resp' = [Idle EXCEPT !.op = "summary", !.status = 200, !.id = u,
                          !.initials = SummaryInitials(users[u])]
  /\ published' = <<>>
  /\ UNCHANGED <<msgs, now, last, REDIS_AVAILABLE, broker, inflight,
                 users, presence>>

ShowInPayload(u) ==
  /\ resp' = [Idle EXCEPT !.op = "payload", !.status = 200, !.id = u,
                          !.initials = PayloadInitials(users[u])]
  /\ published' = <<>>
  /\ UNCHANGED <<msgs, now, last, REDIS_AVAILABLE, broker, inflight,
                 users, presence>>

\* ------------------------------------------------------------ unread count
\* the message_type filter left out
UnreadCount_AnyKind(ms, viewer) ==
  Cardinality({ i \in DOMAIN ms :
                  /\ viewer \in ms[i].recipients
                  /\ ~ms[i].is_read })

\* Message.objects.filter(recipients=viewer, is_read=False,
\*                        message_type="direct").count()
UnreadCount(ms, viewer) ==
  Cardinality({ i \in DOMAIN ms :
                  /\ viewer \in ms[i].recipients
                  /\ ~ms[i].is_read
                  /\ ms[i].kind = "direct" })

GetUnreadCount(viewer) ==
  /\ resp' = [Idle EXCEPT !.op = "unread", !.status = 200,
                          !.count = UnreadCount(msgs, viewer)]
  /\ published' = <<>>
  /\ UNCHANGED <<msgs, now, last, REDIS_AVAILABLE, broker, inflight,
                 users, presence>>

\* -------------------------------------------------------------------- send
\* created_at__gt instead of created_at__gte
DedupMatches_Strict(ms, sender, content, cutoff) ==
  { i \in DOMAIN ms :
      /\ ms[i].sender = sender
      /\ ms[i].content = content
      /\ ms[i].kind = "direct"
      /\ ms[i].created_at > cutoff }

\* the created_at filter left out
DedupMatches_NoWindow(ms, sender, content, cutoff) ==
  { i \in DOMAIN ms :
      /\ ms[i].sender = sender
      /\ ms[i].content = content
      /\ ms[i].kind = "direct" }

\* the message_type filter left out
DedupMatches_AnyKind(ms, sender, content, cutoff) ==
  { i \in DOMAIN ms :
      /\ ms[i].sender = sender
      /\ ms[i].content = content
      /\ ms[i].created_at >= cutoff }

\* the dedup filter of send_message_api
DedupMatches(ms, sender, content, cutoff) ==
  { i \in DOMAIN ms :
      /\ ms[i].sender = sender
      /\ ms[i].content = content
      /\ ms[i].kind = "direct"
      /\ ms[i].created_at >= cutoff }

\* .first() of the unordered queryset: the lowest primary key
FirstOf(S) == IF S = {} THEN 0 ELSE Min(S)

\* the exists() test inverted: the recipient is added only when already there
AddRecipient_Inverted(m, recipient) ==
  IF recipient \in m.recipients
  THEN [m EXCEPT !.recipients = @ \cup {recipient}]
  ELSE m

\* recipients.set([recipient]) instead of recipients.add(recipient)
AddRecipient_Replace(m, recipient) ==
  [m EXCEPT !.recipients = {recipient}]

\* the row is saved again with a fresh created_at when it is reused
AddRecipient_Touch(m, recipient) ==
  [m EXCEPT !.recipients = @ \cup {recipient}, !.created_at = now]

\* message.recipients.add(recipient), guarded by the exists() test
AddRecipient(m, recipient) ==
  IF recipient \in m.recipients THEN m
  ELSE [m EXCEPT !.recipients = @ \cup {recipient}]

\* the row is inserted already marked read
NewDirect_Read(sender, content, t) ==
  [sender |-> sender, recipients |-> {}, content |-> content,
   kind |-> "direct", is_read |-> TRUE, created_at |-> t]

NewDirect(sender, content, t) ==
  [sender |-> sender, recipients |-> {}, content |-> content,
   kind |-> "direct", is_read |-> DefaultIsRead, created_at |-> t]

\* ----------------------------------------------------------------- fan-out
\* redis_client.ping() at import: whether REDIS_AVAILABLE is set
Ping(b) == b = "up"

\* the payload of publish_message: the fields that vary with the call
Payload(m, id, sender, recipient) ==
  [message_id |-> id, sender_id |-> sender, recipient_id |-> recipient,
   content |-> m.content, timestamp |-> m.created_at]

\* one PUBLISH command on the wire and how it ended
Command(channel, payload, outcome) ==
  [channel |-> channel, payload |-> payload, outcome |-> outcome]

\* redis_client.publish with retry_on_timeout left out: a timed-out command
\* is not sent again
ClientPublish_NoRetry(b, channel, payload) ==
  IF b = "up"
  THEN [sent |-> <<Command(channel, payload, "ok")>>, raised |-> FALSE]
  ELSE IF b = "down"
  THEN [sent |-> <<Command(channel, payload, "refused")>>, raised |-> TRUE]
  ELSE [sent |-> <<Command(channel, payload, "timeout")>>, raised |-> TRUE]

\* redis_client.publish of the client built with retry_on_timeout=True: a
\* command that times out is sent once more before TimeoutError is raised; a
\* refused connection raises ConnectionError at once
ClientPublish(b, channel, payload) ==
  IF b = "up"
  THEN [sent |-> <<Command(channel, payload, "ok")>>, raised |-> FALSE]
  ELSE IF b = "down"
  THEN [sent |-> <<Command(channel, payload, "refused")>>, raised |-> TRUE]
  ELSE [sent |-> <<Command(channel, payload, "timeout"),
                   Command(channel, payload, "timeout")>>,
        raised |-> TRUE]

\* the except clause left out: the client's exception reaches the caller
redis_publish_NoCatch(available, b, channel, payload) ==
  IF ~available THEN [sent |-> <<>>, raised |-> FALSE]
  ELSE ClientPublish(b, channel, payload)

\* the REDIS_AVAILABLE test left out
redis_publish_NoFlag(available, b, channel, payload) ==
  [ClientPublish(b, channel, payload) EXCEPT !.raised = FALSE]

\* redis_publish: nothing when the flag is off, and every exception swallowed
redis_publish(available, b, channel, payload) ==
  IF ~available THEN [sent |-> <<>>, raised |-> FALSE]
  ELSE [ClientPublish(b, channel, payload) EXCEPT !.raised = FALSE]

\* redis_client.exists(key): the answer of a reachable broker, an exception
\* (after the repeat of a timed-out command) otherwise
ClientExists(b, present) ==
  IF b = "up" THEN [value |-> present, raised |-> FALSE]
  ELSE [value |-> FALSE, raised |-> TRUE]

\* the except clause left out
redis_exists_NoCatch(available, b, present) ==
  IF ~available THEN [value |-> FALSE, raised |-> FALSE]
  ELSE ClientExists(b, present)

\* the REDIS_AVAILABLE test left out
redis_exists_NoFlag(available, b, present) ==
  [ClientExists(b, present) EXCEPT !.raised = FALSE]

\* redis_exists: False when the flag is off, and False for every exception
redis_exists(available, b, present) ==
  IF ~available THEN [value |-> FALSE, raised |-> FALSE]
  ELSE [ClientExists(b, present) EXCEPT !.raised = FALSE]

\* only the recipient's channel is served
publish_message_RecipientOnly(available, b, m, id, sender, recipient) ==
  redis_publish(available, b, recipient, Payload(m, id, sender, recipient))

\* publish_message: the recipient's channel "user_<recipient>", then the
\* sender's "user_<sender>"; channels are named by their user id
publish_message(available, b, m, id, sender, recipient) ==
  LET payload == Payload(m, id, sender, recipient)
      first == redis_publish(available, b, recipient, payload)
      second == redis_publish(available, b, sender, payload)
  IN IF first.raised THEN first
     ELSE [sent |-> first.sent \o second.sent, raised |-> second.raised]

\* the JsonResponse after publish_message: an exception out of it would be
\* caught by `except Exception` and answered with 500
SendResponse(req, id, m, out) ==
  IF out.raised THEN [req EXCEPT !.status = 500]
  ELSE [req EXCEPT !.status = 200, !.id = id, !.ts = m.created_at]

Send(sender, recipient_id, raw) ==
  LET content == Strip(raw)
      req == [Idle EXCEPT !.op = "send"]
  IN
  IF recipient_id = 0 \/ content = <<>> THEN
    /\ resp' = [req EXCEPT !.status = 400]
    /\ published' = <<>>
    /\ UNCHANGED <<msgs, now, last, REDIS_AVAILABLE, broker, inflight,
                   users, presence>>
  ELSE IF ~UserExists(recipient_id) THEN
    /\ resp' = [req EXCEPT !.status = 404]
    /\ published' = <<>>
    /\ UNCHANGED <<msgs, now, last, REDIS_AVAILABLE, broker, inflight,
                   users, presence>>
  ELSE
    LET cutoff == now - DedupWindow
        existing == FirstOf(DedupMatches(msgs, sender, content, cutoff))
        id == IF existing # 0 THEN existing ELSE NextId(msgs)
        message == IF existing # 0
                   THEN AddRecipient(msgs[existing], recipient_id)
                   ELSE AddRecipient(NewDirect(sender, content, now),
                                     recipient_id)
        out == publish_message(REDIS_AVAILABLE, broker, message, id,
                               sender, recipient_id)
    IN
    /\ existing = 0 => Len(msgs) < MaxMsgs
    /\ msgs' = IF existing # 0 THEN [msgs EXCEPT ![existing] = message]
               ELSE Append(msgs, message)
    /\ resp' = SendResponse(req, id, message, out)
    /\ last' = [id |-> id, rcpt |-> recipient_id, at |-> now]
    /\ published' = out.sent
    /\ UNCHANGED <<now, REDIS_AVAILABLE, broker, inflight, users, presence>>

\* ------------------------------------------------------------ conversation
\* the Q(...) | Q(...) filter of get_conversation_messages
ConversationIds(ms, viewer, other) ==
  { i \in DOMAIN ms :
      \/ /\ ms[i].sender = viewer
         /\ other \in ms[i].recipients
         /\ ms[i].kind = "direct"
      \/ /\ ms[i].sender = other
         /\ viewer \in ms[i].recipients
         /\ ms[i].kind = "direct" }

\* order_by("created_at"): rows with equal created_at come back in an order
\* the database does not fix
OrderByCreatedAt(ms, S) ==
  { f \in [1..Cardinality(S) -> S] :
      /\ \A i, j \in 1..Cardinality(S) : i # j => f[i] # f[j]
      /\ \A i, j \in 1..Cardinality(S) :
           i < j => ms[f[i]].created_at <= ms[f[j]].created_at }

\* the flag negated instead of set
FlipOnOpen_Toggle(ms, viewer, S) ==
  [ i \in DOMAIN ms |->
      IF i \in S /\ ms[i].sender # viewer
      THEN [ms[i] EXCEPT !.is_read = ~@]
      ELSE ms[i] ]

\* the loop body's read flip, applied to every row of the result
FlipOnOpen(ms, viewer, S) ==
  [ i \in DOMAIN ms |->
      IF i \in S /\ ms[i].sender # viewer /\ ~ms[i].is_read
      THEN [ms[i] EXCEPT !.is_read = TRUE]
      ELSE ms[i] ]

\* the JsonResponse after the loop: an exception out of redis_exists would
\* leave the view and be answered with 500
ConversationResponse(req, ord, look) ==
  IF look.raised THEN [req EXCEPT !.status = 500]
  ELSE [req EXCEPT !.status = 200, !.ids = ord, !.online = look.value]

GetConversation(viewer, user_id) ==
  LET req == [Idle EXCEPT !.op = "conv"] IN
  IF ~UserExists(user_id) THEN
    /\ resp' = [req EXCEPT !.status = 404]
    /\ published' = <<>>
    /\ UNCHANGED <<msgs, now, last, REDIS_AVAILABLE, broker, inflight,
                   users, presence>>
  ELSE
    LET S == ConversationIds(msgs, viewer, user_id) IN
    \E ord \in OrderByCreatedAt(msgs, S) :
      /\ msgs' = FlipOnOpen(msgs, viewer, S)
      /\ resp' = ConversationResponse(
                    req, ord, redis_exists(REDIS_AVAILABLE, broker,
                                           user_id \in presence))
      /\ published' = <<>>
      /\ UNCHANGED <<now, last, REDIS_AVAILABLE, broker, inflight,
                     users, presence>>

\* --------------------------------------------------------------- mark read
\* the is_read=False filter left out and the flag negated instead of set
MarkReadUpdate_Toggle(ms, viewer, user_id) ==
  [ i \in DOMAIN ms |->
      IF /\ ms[i].sender = user_id
         /\ viewer \in ms[i].recipients
         /\ ms[i].kind = "direct"
      THEN [ms[i] EXCEPT !.is_read = ~@]
      ELSE ms[i] ]

\* the message_type filter left out
MarkReadUpdate_AnyKind(ms, viewer, user_id) ==
  [ i \in DOMAIN ms |->
      IF /\ ms[i].sender = user_id
         /\ viewer \in ms[i].recipients
         /\ ~ms[i].is_read
      THEN [ms[i] EXCEPT !.is_read = TRUE]
      ELSE ms[i] ]

\* the filtered bulk update of mark_as_read_api
MarkReadUpdate(ms, viewer, user_id) ==
  [ i \in DOMAIN ms |->
      IF /\ ms[i].sender = user_id
         /\ viewer \in ms[i].recipients
         /\ ~ms[i].is_read
         /\ ms[i].kind = "direct"
      THEN [ms[i] EXCEPT !.is_read = TRUE]
      ELSE ms[i] ]

MarkRead(viewer, user_id) ==
  /\ msgs' = MarkReadUpdate(msgs, viewer, user_id)
  /\ resp' = [Idle EXCEPT !.op = "markRead", !.status = 200]
  /\ published' = <<>>
  /\ UNCHANGED <<now, last, REDIS_AVAILABLE, broker, inflight,
                 users, presence>>

\* ------------------------------------------------------------ store faults
\* get_conversation_messages when a msg.save(update_fields=["is_read"])
\* raises (a locked or lost database): the rows saved before it stay saved,
\* each in its own autocommit transaction, and the exception, which is not
\* User.DoesNotExist, leaves the view: the request is answered with 500
GetConversationSaveFails(viewer, user_id) ==
  /\ UserExists(user_id)
  /\ LET S == ConversationIds(msgs, viewer, user_id) IN
     \E ord \in OrderByCreatedAt(msgs, S) :
       \E k \in 1..Len(ord) :
         /\ msgs[ord[k]].sender # viewer
         /\ ~msgs[ord[k]].is_read
         /\ msgs' = FlipOnOpen(msgs, viewer, { ord[j] : j \in 1..(k - 1) })
         /\ resp' = [Idle EXCEPT !.op = "conv", !.status = 500]
         /\ published' = <<>>
         /\ UNCHANGED <<now, last, REDIS_AVAILABLE, broker, inflight,
                        users, presence>>

\* send_message_api when message.recipients.add(recipient) raises: on the
\* new-message path the row that Message.objects.create inserted stays, in
\* its own autocommit transaction and without a recipient; `except Exception`
\* answers with 500
SendAddFails(sender, recipient_id, raw) ==
  LET content == Strip(raw)
      cutoff == now - DedupWindow
      existing == FirstOf(DedupMatches(msgs, sender, content, cutoff))
  IN
  /\ recipient_id # 0 /\ content # <<>>
  /\ UserExists(recipient_id)
  /\ IF existing # 0
     THEN /\ recipient_id \notin msgs[existing].recipients
          /\ UNCHANGED msgs
     ELSE /\ Len(msgs) < MaxMsgs
          /\ msgs' = Append(msgs, NewDirect(sender, content, now))
  /\ resp' = [Idle EXCEPT !.op = "send", !.status = 500]
  /\ published' = <<>>
  /\ UNCHANGED <<now, last, REDIS_AVAILABLE, broker, inflight,
                 users, presence>>

\* ----------------------------------------------------------- announcements
NewAnnouncement(sender, recipients, content, t) ==
  [sender |-> sender, recipients |-> recipients, content |-> content,
   kind |-> "announcement", is_read |-> FALSE, created_at |-> t]

\* add_team_member_api: an announcement row without recipients
AddTeamMember(sender, content) ==
  /\ Len(msgs) < MaxMsgs
  /\ msgs' = Append(msgs, NewAnnouncement(sender, {}, content, now))
  /\ resp' = [Idle EXCEPT !.op = "announce", !.status = 200]
  /\ published' = <<>>
  /\ UNCHANGED <<now, last, REDIS_AVAILABLE, broker, inflight,
                 users, presence>>

\* schedule_meeting_api: an announcement row sent to the project's team
ScheduleMeeting(sender, team, content) ==
  /\ Len(msgs) < MaxMsgs
  /\ msgs' = Append(msgs, NewAnnouncement(sender, team, content, now))
  /\ resp' = [Idle EXCEPT !.op = "announce", !.status = 200]
  /\ published' = <<>>
  /\ UNCHANGED <<now, last, REDIS_AVAILABLE, broker, inflight,
                 users, presence>>

\* ------------------------------------------------------------------- clock
Tick(d) ==
  /\ now + d <= MaxTime
  /\ now' = now + d
  /\ resp' = Idle
  /\ published' = <<>>
  /\ UNCHANGED <<msgs, last, REDIS_AVAILABLE, broker, inflight,
                 users, presence>>

\* ------------------------------------------------------------------ broker
\* the broker goes down, becomes slow or recovers between two requests
BrokerChange(b) ==
  /\ b # broker
  /\ broker' = b
  /\ resp' = Idle
  /\ published' = <<>>
  /\ UNCHANGED <<msgs, now, last, REDIS_AVAILABLE, inflight, users, presence>>

\* a user connects to the live layer, which sets the key user_online_<id>,
\* or the key goes away
PresenceChange(u) ==
  /\ presence' = IF u \in presence THEN presence \ {u} ELSE presence \cup {u}
  /\ resp' = Idle
  /\ published' = <<>>
  /\ UNCHANGED <<msgs, now, last, REDIS_AVAILABLE, broker, inflight, users>>

\* ---------------------------------------------------------- worker threads
\* send_message_api statement by statement, as one worker thread runs it
\* while the other workers run theirs

\* the fan-out moved in front of recipients.add
SendOrder_PublishBeforeAdd ==
  <<"create", "publish", "publish2", "add", "respond">>

\* the statements that follow the dedup query, in the order of the code
SendOrder == <<"create", "add", "publish", "publish2", "respond">>

\* the statement that follows pc
After(pc) ==
  LET k == CHOOSE j \in DOMAIN SendOrder : SendOrder[j] = pc
  IN SendOrder[k + 1]

\* the request is parsed and checked, the recipient looked up and the dedup
\* query run; a request that fails a check is answered at once
SendBegin(w, sender, recipient_id, raw) ==
  LET content == Strip(raw)
      req == [Idle EXCEPT !.op = "send"]
  IN
  /\ inflight[w].pc = "idle"
  /\ published' = <<>>
  /\ IF recipient_id = 0 \/ content = <<>> THEN
       /\ resp' = [req EXCEPT !.status = 400]
       /\ UNCHANGED <<msgs, now, last, REDIS_AVAILABLE, broker, inflight,
                      users, presence>>
     ELSE IF ~UserExists(recipient_id) THEN
       /\ resp' = [req EXCEPT !.status = 404]
       /\ UNCHANGED <<msgs, now, last, REDIS_AVAILABLE, broker, inflight,
                      users, presence>>
     ELSE
       LET cutoff == now - DedupWindow
           existing == FirstOf(DedupMatches(msgs, sender, content, cutoff))
       IN
       /\ inflight' = [inflight EXCEPT ![w] =
                         [pc |-> SendOrder[1], sender |-> sender,
                          recipient |-> recipient_id, content |-> content,
                          existing |-> existing, id |-> existing,
                          created_at |-> IF existing # 0
                                         THEN msgs[existing].created_at
                                         ELSE 0]]
       /\ UNCHANGED <<msgs, now, resp, last, REDIS_AVAILABLE, broker,
                      users, presence>>

\* `if existing: message = existing`, else Message.objects.create
SendCreate(w) ==
  LET r == inflight[w] IN
  /\ r.pc = "create"
  /\ IF r.existing # 0
     THEN /\ inflight' = [inflight EXCEPT ![w].pc = After("create")]
          /\ UNCHANGED msgs
     ELSE /\ Len(msgs) < MaxMsgs
          /\ msgs' = Append(msgs, NewDirect(r.sender, r.content, now))
          /\ inflight' = [inflight EXCEPT ![w].pc = After("create"),
                                          ![w].id = NextId(msgs),
                                          ![w].created_at = now]
  /\ published' = <<>>
  /\ UNCHANGED <<now, resp, last, REDIS_AVAILABLE, broker, users, presence>>

\* message.recipients.add(recipient), after the exists() test on the reuse
\* path
SendAdd(w) ==
  LET r == inflight[w] IN
  /\ r.pc = "add"
  /\ msgs' = [msgs EXCEPT ![r.id] = AddRecipient(@, r.recipient)]
  /\ inflight' = [inflight EXCEPT ![w].pc = After("add")]
  /\ published' = <<>>
  /\ UNCHANGED <<now, resp, last, REDIS_AVAILABLE, broker, users, presence>>

\* redis_publish(f"user_{recipient.id}", payload): the payload is built from
\* the request's own message object
SendPublish(w) ==
  LET r == inflight[w] IN
  /\ r.pc = "publish"
  /\ published' =
       redis_publish(REDIS_AVAILABLE, broker, r.recipient,
                     Payload(r, r.id, r.sender, r.recipient)).sent
  /\ inflight' = [inflight EXCEPT ![w].pc = After("publish")]
  /\ UNCHANGED <<msgs, now, resp, last, REDIS_AVAILABLE, broker,
                 users, presence>>

\* redis_publish(f"user_{sender.id}", payload)
SendPublish2(w) ==
  LET r == inflight[w] IN
  /\ r.pc = "publish2"
  /\ published' =
       redis_publish(REDIS_AVAILABLE, broker, r.sender,
                     Payload(r, r.id, r.sender, r.recipient)).sent
  /\ inflight' = [inflight EXCEPT ![w].pc = After("publish2")]
  /\ UNCHANGED <<msgs, now, resp, last, REDIS_AVAILABLE, broker,
                 users, presence>>

\* the JsonResponse with the message's id and creation time
SendRespond(w) ==
  LET r == inflight[w] IN
  /\ r.pc = "respond"
  /\ resp' = [Idle EXCEPT !.op = "send", !.status = 200, !.id = r.id,
                          !.ts = r.created_at]
  /\ last' = [id |-> r.id, rcpt |-> r.recipient, at |-> now]
  /\ inflight' = [inflight EXCEPT ![w] = NoRequest]
  /\ published' = <<>>
  /\ UNCHANGED <<msgs, now, REDIS_AVAILABLE, broker, users, presence>>

\* ----------------------------------------------------------- specification
\* the process starts with an empty Message table and a reachable broker
Init ==
  /\ msgs = <<>>
  /\ now = 0
  /\ resp = Idle
  /\ last = NoSend
  /\ broker = "up"
  /\ REDIS_AVAILABLE = Ping(broker)
  /\ published = <<>>
  /\ inflight = [w \in Workers |-> NoRequest]
  /\ users = DefaultUsers
  /\ presence = {}

Next ==
  \/ \E s \in Users, r \in RecipientInputs, c \in SentContents : Send(s, r, c)
  \/ \E v \in Users, u \in UserIdInputs : GetConversation(v, u)
  \/ \E v \in Users, u \in UserIdInputs : MarkRead(v, u)
  \/ \E v \in Users : GetUnreadCount(v)
  \/ \E s \in Managers, c \in AnnouncementContents : AddTeamMember(s, c)
  \/ \E s \in Managers, t \in Teams, c \in AnnouncementContents :
       ScheduleMeeting(s, t, c)
  \/ \E d \in TickSteps : Tick(d)

Spec == Init /\ [][Next]_vars

\* the same program beside an unreliable broker: the process may start while
\* the broker is down or slow, and the broker changes between requests
InitFanout ==
  /\ msgs = <<>>
  /\ now = 0
  /\ resp = Idle
  /\ last = NoSend
  /\ broker \in BrokerStates
  /\ REDIS_AVAILABLE = Ping(broker)
  /\ published = <<>>
  /\ inflight = [w \in Workers |-> NoRequest]
  /\ users = DefaultUsers
  /\ presence = {}

\* request bodies' "content" where the environment fails: none, blank, a text
FanoutContents == { <<>>, <<" ">>, <<" ", "a", "\t">> }

\* the requests of Next, with one message text and the clock stepping past
\* the dedup window only
NextFanout ==
  \/ \E s \in Users, r \in RecipientInputs, c \in FanoutContents : Send(s, r, c)
  \/ \E v \in Users, u \in UserIdInputs : GetConversation(v, u)
  \/ \E v \in Users, u \in UserIdInputs : MarkRead(v, u)
  \/ \E v \in Users : GetUnreadCount(v)
  \/ \E s \in Managers, c \in AnnouncementContents : AddTeamMember(s, c)
  \/ \E s \in Managers, t \in Teams, c \in AnnouncementContents :
       ScheduleMeeting(s, t, c)
  \/ Tick(DedupWindow + 1)
  \/ \E b \in BrokerStates : BrokerChange(b)

SpecFanout == InitFanout /\ [][NextFanout]_vars

\* the same program over a store whose writes may fail
NextFaults ==
  \/ \E s \in Users, r \in RecipientInputs, c \in FanoutContents : Send(s, r, c)
  \/ \E v \in Users, u \in UserIdInputs : GetConversation(v, u)
  \/ \E v \in Users, u \in UserIdInputs : GetConversationSaveFails(v, u)
  \/ \E s \in Users, r \in RecipientInputs, c \in FanoutContents :
       SendAddFails(s, r, c)
  \/ \E v \in Users, u \in UserIdInputs : MarkRead(v, u)
  \/ \E v \in Users : GetUnreadCount(v)
  \/ \E s \in Managers, c \in AnnouncementContents : AddTeamMember(s, c)
  \/ \E s \in Managers, t \in Teams, c \in AnnouncementContents :
       ScheduleMeeting(s, t, c)
  \/ \E d \in TickSteps : Tick(d)

SpecFaults == Init /\ [][NextFaults]_vars

\* the one text the workers send
ConcurrentContents == { <<" ", "a", "\t">> }

\* the workers' sends of well-formed requests interleaved with each other and
\* with markRead, within one reading of the clock
NextConcurrent ==
  \/ \E w \in Workers, s \in Users, r \in Users, c \in ConcurrentContents :
       SendBegin(w, s, r, c)
  \/ \E w \in Workers : SendCreate(w)
  \/ \E w \in Workers : SendAdd(w)
  \/ \E w \in Workers : SendPublish(w)
  \/ \E w \in Workers : SendPublish2(w)
  \/ \E w \in Workers : SendRespond(w)
  \/ \E v \in Users, u \in Users : MarkRead(v, u)

SpecConcurrent == Init /\ [][NextConcurrent]_vars

\* the workers of a process that started without a broker, so that their
\* publish steps send nothing: their sends interleaved with each other, with
\* getConversation and with markRead, while the clock moves on
InitRace ==
  /\ msgs = <<>>
  /\ now = 0
  /\ resp = Idle
  /\ last = NoSend
  /\ broker = "down"
  /\ REDIS_AVAILABLE = Ping(broker)
  /\ published = <<>>
  /\ inflight = [w \in Workers |-> NoRequest]
  /\ users = DefaultUsers
  /\ presence = {}

\* the user all the racing sends come from: sends of different senders never
\* meet in a message
RaceSenders == {1}

NextRace ==
  \/ \E w \in Workers, s \in RaceSenders, r \in Users,
        c \in ConcurrentContents :
       SendBegin(w, s, r, c)
  \/ \E w \in Workers : SendCreate(w)
  \/ \E w \in Workers : SendAdd(w)
  \/ \E w \in Workers : SendPublish(w)
  \/ \E w \in Workers : SendPublish2(w)
  \/ \E w \in Workers : SendRespond(w)
  \/ \E v \in Users, u \in Users : GetConversation(v, u)
  \/ \E v \in Users, u \in Users : MarkRead(v, u)
  \/ Tick(DedupWindow + 1)

SpecRace == InitRace /\ [][NextRace]_vars

\* the initials of every User table over Profiles, in the three places
InitInitials ==
  /\ msgs = <<>>
  /\ now = 0
  /\ resp = Idle
  /\ last = NoSend
  /\ broker = "up"
  /\ REDIS_AVAILABLE = Ping(broker)
  /\ published = <<>>
  /\ inflight = [w \in Workers |-> NoRequest]
  /\ users \in [Users -> Profiles]
  /\ presence = {}

NextInitials ==
  \/ \E u \in Users : ShowInMessage(u)
  \/ \E u \in Users : ShowInSummary(u)
  \/ \E u \in Users : ShowInPayload(u)

SpecInitials == InitInitials /\ [][NextInitials]_vars

\* the four operations beside a broker that comes and goes and whose
\* presence keys change, within one reading of the clock
NextPresence ==
  \/ \E s \in Users, r \in RecipientInputs, c \in ConcurrentContents :
       Send(s, r, c)
  \/ \E v \in Users, u \in UserIdInputs : GetConversation(v, u)
  \/ \E v \in Users, u \in UserIdInputs : MarkRead(v, u)
  \/ \E v \in Users : GetUnreadCount(v)
  \/ \E b \in BrokerStates : BrokerChange(b)
  \/ \E u \in Users : PresenceChange(u)

SpecPresence == InitFanout /\ [][NextPresence]_vars

\* ================================================================== claims
\* a send step that answered 200
SendOK(a, b, c) == Send(a, b, c) /\ resp'.status = 200

\* whether that step inserted a row
Inserted == Len(msgs') = Len(msgs) + 1

\* a step that ends with a 200 answer to a send; last' then holds what the
\* call returned and its recipient, and the returned row holds its sender
AnsweredSend == resp'.op = "send" /\ resp'.status = 200
SentBy == msgs'[last'.id].sender
SentTo == last'.rcpt
\* ... and c was the content of the call
Sent(c) == Strip(c) = msgs'[last'.id].content /\ SendOK(SentBy, SentTo, c)

\* ---------------------------------------------------------------------- C1
\* C1 as stated (read for A # B, where it is not self-contradictory): every
\* successful send from A to B makes getUnreadCount(B) exactly 1 larger and
\* leaves getUnreadCount(A) unchanged.
C1_Original ==
  [][AnsweredSend =>
       \A c \in RawContents :
         (SentBy # SentTo /\ Sent(c)) =>
           /\ UnreadCount(msgs', SentTo) = UnreadCount(msgs, SentTo) + 1
           /\ UnreadCount(msgs', SentBy) = UnreadCount(msgs, SentBy)]_vars

\* C1, amended: a successful send from A to B makes getUnreadCount(B) exactly
\* 1 larger when it inserts a new message or appends B to a reused message
\* that is still unread, and leaves it unchanged otherwise (B already a
\* recipient of the reused message, or the reused message already read); it
\* leaves getUnreadCount(U) unchanged for every user U # B, so also for A
\* when A # B.
C1_UnreadAfterSend ==
  [][AnsweredSend =>
       \A c \in RawContents :
         Sent(c) =>
           LET id == resp'.id
               gained == \/ Inserted
                         \/ /\ ~Inserted
                            /\ SentTo \notin msgs[id].recipients
                            /\ ~msgs[id].is_read
           IN /\ UnreadCount(msgs', SentTo) =
                   UnreadCount(msgs, SentTo) + (IF gained THEN 1 ELSE 0)
              /\ \A u \in Users \ {SentTo} :
                   UnreadCount(msgs', u) = UnreadCount(msgs, u)]_vars

\* a send has just put one unread message from another user in front of its
\* recipient, whose unread count is 1 while the sender's is 0
C1_Witness ==
  /\ resp.op = "send" /\ resp.status = 200
  /\ resp.id = last.id
  /\ msgs[resp.id].recipients = {last.rcpt}
  /\ msgs[resp.id].sender # last.rcpt
  /\ ~msgs[resp.id].is_read
  /\ UnreadCount(msgs, last.rcpt) = 1
  /\ UnreadCount(msgs, msgs[resp.id].sender) = 0

\* ---------------------------------------------------------------------- C2
\* C2: when sender A's previous send left its message with recipient set
\* {B} (it created the message) and A sends the same trimmed content again
\* within 5 seconds of that message's creation, with no other send in
\* between, the second send returns the same message, inserts no row, and
\* the message's recipient set is {B} joined with the second recipient.
C2_ResendWithinWindow ==
  [][AnsweredSend =>
       \A c \in RawContents :
         ( /\ last.id # 0
           /\ msgs[last.id].sender = SentBy
           /\ msgs[last.id].content = Strip(c)
           /\ msgs[last.id].recipients = {last.rcpt}
           /\ now - msgs[last.id].created_at <= DedupWindow
           /\ Sent(c) )
         => /\ resp'.id = last.id
            /\ Len(msgs') = Len(msgs)
            /\ msgs'[last.id].recipients = {last.rcpt, SentTo}]_vars

\* a resend, later than the message's creation but inside the window, has
\* just been answered with the first message, which now has two recipients
C2_Witness ==
  /\ resp.op = "send" /\ resp.status = 200
  /\ resp.id = last.id
  /\ resp.ts < now /\ now - resp.ts <= DedupWindow
  /\ Len(msgs) = 1
  /\ Cardinality(msgs[resp.id].recipients) = 2

\* ---------------------------------------------------------------------- C3
\* C3: when A sends to B the content of A's previous send to B more than 5
\* seconds after that previous call, with no other send in between, the
\* second send inserts a new row and returns its identifier, which differs
\* from the first one's; the first message is left as it was.
C3_ResendAfterWindow ==
  [][AnsweredSend =>
       \A c \in RawContents :
         ( /\ last.id # 0
           /\ last.rcpt = SentTo
           /\ msgs[last.id].sender = SentBy
           /\ msgs[last.id].content = Strip(c)
           /\ now - last.at > DedupWindow
           /\ Sent(c) )
         => /\ Inserted
            /\ resp'.id # last.id
            /\ resp'.id \notin DOMAIN msgs
            /\ msgs'[resp'.id].kind = "direct"
            /\ msgs'[resp'.id].content = msgs[last.id].content
            /\ msgs'[resp'.id].recipients = {SentTo}
            /\ msgs'[last.id] = msgs[last.id]]_vars

\* two rows with the same sender, recipient and content, created more than
\* the window apart, the second just returned by a send
C3_Witness ==
  /\ resp.op = "send" /\ resp.status = 200
  /\ resp.id = 2
  /\ msgs[1].kind = "direct" /\ msgs[2].kind = "direct"
  /\ msgs[1].sender = msgs[2].sender
  /\ msgs[1].content = msgs[2].content
  /\ msgs[1].recipients = msgs[2].recipients
  /\ msgs[2].created_at - msgs[1].created_at > DedupWindow

\* ---------------------------------------------------------------------- C4
\* t is raw without its leading and trailing whitespace
IsTrimOf(t, raw) ==
  /\ t # <<>> => (t[1] \notin Whitespace /\ t[Len(t)] \notin Whitespace)
  /\ \E i \in 0..Len(raw) :
       /\ i + Len(t) <= Len(raw)
       /\ SubSeq(raw, i + 1, i + Len(t)) = t
       /\ \A k \in 1..Len(raw) :
            (k <= i \/ k > i + Len(t)) => raw[k] \in Whitespace

\* row i may be reused by a send of content c from sender a at time t
Reusable(ms, i, a, c, t) ==
  /\ ms[i].sender = a
  /\ ms[i].kind = "direct"
  /\ IsTrimOf(ms[i].content, c)
  /\ ms[i].created_at <= t
  /\ t - ms[i].created_at <= DedupWindow

C5_Original ==
  \A i \in DOMAIN msgs :
    msgs[i].kind = "direct" => Cardinality(msgs[i].recipients) = 1

\* C5, amended: a direct message has exactly one recipient, the call's, when
\* a successful send inserts it; a successful send that reuses a message
\* attaches at most one more recipient to it, so a direct message has as many
\* recipients as distinct users it was sent to inside its dedup window.
C5_OneRecipientPerSend ==
  [][AnsweredSend =>
       \A c \in RawContents :
         Sent(c) =>
           LET id == resp'.id IN
           IF Inserted
           THEN /\ Cardinality(msgs'[id].recipients) = 1
                /\ SentTo \in msgs'[id].recipients
           ELSE /\ Cardinality(msgs'[id].recipients) =
                     Cardinality(msgs[id].recipients)
                       + (IF SentTo \in msgs[id].recipients THEN 0 ELSE 1)
                /\ Cardinality(msgs'[id].recipients) >= 1]_vars

\* a reusing send has just left a direct message with two recipients
C5_Witness ==
  /\ resp.op = "send" /\ resp.status = 200
  /\ msgs[resp.id].kind = "direct"
  /\ msgs[resp.id].recipients = Users
  /\ resp.ts = now

\* ---------------------------------------------------------------------- C6
\* C6: a successful send inserts at most one row and returns the id of a
\* stored message whose recipient set is its previous recipient set (empty
\* for a new row) joined with the call's recipient; no row loses a recipient.
C6_RecipientUnion ==
  [][AnsweredSend =>
       \A c \in RawContents :
         Sent(c) =>
           LET id == resp'.id
               before == IF id \in DOMAIN msgs THEN msgs[id].recipients
                         ELSE {}
           IN /\ Len(msgs') <= Len(msgs) + 1
              /\ Len(msgs') >= Len(msgs)
              /\ id \in DOMAIN msgs'
              /\ msgs'[id].recipients = before \cup {SentTo}
              /\ \A i \in DOMAIN msgs :
                   msgs[i].recipients \subseteq msgs'[i].recipients]_vars

\* a send has just been answered with row 1 while a second row exists, and
\* row 1 holds a recipient besides the call's
C6_Witness ==
  /\ resp.op = "send" /\ resp.status = 200
  /\ resp.id = 1 /\ Len(msgs) = 2
  /\ last.rcpt \in msgs[1].recipients
  /\ msgs[1].recipients # {last.rcpt}

\* ---------------------------------------------------------------------- C7
\* a step that ends with a 200 answer to a conversation fetch
AnsweredConversation == resp'.op = "conv" /\ resp'.status = 200

\* C7: after getConversation(B, A), for all users A and B including A = B,
\* no unread direct message with sender A and recipient B remains.
C7_Original ==
  [][AnsweredConversation =>
       \A b \in Users, a \in Users :
         GetConversation(b, a) =>
           \A i \in DOMAIN msgs' :
             ~( /\ msgs'[i].kind = "direct"
                /\ msgs'[i].sender = a
                /\ b \in msgs'[i].recipients
                /\ ~msgs'[i].is_read )]_vars

\* ---------------------------------------------------------------------- C8
\* C8: whatever getConversation(B, A) can return right after
\* getConversation(A, B) is the sequence of identifiers that call returned.
C8_Original ==
  [][AnsweredConversation =>
       \A a \in Users, b \in Users :
         GetConversation(a, b) =>
           \A ord \in OrderByCreatedAt(msgs', ConversationIds(msgs', b, a)) :
             ord = resp'.ids]_vars

\* ---------------------------------------------------------------------- C9
\* the messages the claim puts in the conversation of viewer and other
ClaimedConversation(ms, viewer, other) ==
  { i \in DOMAIN ms :
      /\ ms[i].kind = "direct"
      /\ \/ ms[i].sender = viewer /\ other \in ms[i].recipients
         \/ ms[i].sender = other /\ viewer \in ms[i].recipients }

\* S in the order of creation time, equal times in the order of identifier
ByCreationThenId(ms, S) ==
  CHOOSE f \in [1..Cardinality(S) -> S] :
    \A i, j \in 1..Cardinality(S) :
      i < j =>
        \/ ms[f[i]].created_at < ms[f[j]].created_at
        \/ ms[f[i]].created_at = ms[f[j]].created_at /\ f[i] < f[j]

\* C9: getConversation(viewer, other) returns exactly the direct messages
\* between the two, each once, by creation time ascending and, among equal
\* creation times, by identifier ascending.
C9_Original ==
  [][AnsweredConversation =>
       \A v \in Users, o \in Users :
         GetConversation(v, o) =>
           resp'.ids = ByCreationThenId(msgs, ClaimedConversation(msgs, v, o))
    ]_vars

\* --------------------------------------------------------------------- C10
\* C10: a second markRead(B, A) right after a first one changes nothing:
\* the update of the second call maps the store the first call left to
\* itself.
C10_MarkReadIdempotent ==
  [][resp'.op = "markRead" =>
       \A b \in Users, a \in UserIdInputs :
         MarkRead(b, a) =>
           MarkReadUpdate(msgs', b, a) = msgs']_vars

\* markRead has just run and a message a user sent to nobody but themselves
\* is read: only markRead flips such a message
C10_Witness ==
  /\ resp.op = "markRead"
  /\ \E i \in DOMAIN msgs :
       /\ msgs[i].kind = "direct"
       /\ msgs[i].recipients = {msgs[i].sender}
       /\ msgs[i].is_read

\* --------------------------------------------------------------------- C11
\* C11: markRead(viewer, other) sets the read flag of exactly the unread
\* direct messages whose sender is other and whose recipients include viewer;
\* every other row, and every other field of every row, is left as it was.
C11_MarkReadFrame ==
  [][resp'.op = "markRead" =>
       \A v \in Users, o \in UserIdInputs :
         MarkRead(v, o) =>
           /\ DOMAIN msgs' = DOMAIN msgs
           /\ \A i \in DOMAIN msgs :
                IF /\ msgs[i].kind = "direct"
                   /\ msgs[i].sender = o
                   /\ v \in msgs[i].recipients
                   /\ ~msgs[i].is_read
                THEN /\ msgs'[i].is_read
                     /\ [msgs'[i] EXCEPT !.is_read = FALSE] = msgs[i]
                ELSE msgs'[i] = msgs[i]]_vars

\* markRead has just run; a direct message is read while an announcement of
\* the same sender, with a recipient of the direct message among its own, is
\* still unread
C11_Witness ==
  /\ resp.op = "markRead"
  /\ \E i, j \in DOMAIN msgs :
       /\ msgs[i].kind = "direct" /\ msgs[i].is_read
       /\ msgs[j].kind = "announcement" /\ ~msgs[j].is_read
       /\ msgs[j].sender = msgs[i].sender
       /\ msgs[i].recipients \subseteq msgs[j].recipients

\* --------------------------------------------------------------------- C12
\* C12: getUnreadCount(viewer) answers with the number of rows that are
\* unread, of kind direct and have viewer among their recipients; it leaves
\* the Message table as it was and sends nothing to the broker.
C12_UnreadCountPure ==
  [][resp'.op = "unread" =>
       \A v \in Users :
         GetUnreadCount(v) =>
           /\ resp'.status = 200
           /\ resp'.count =
                Len(msgs) - Cardinality({ i \in DOMAIN msgs :
                                            \/ msgs[i].is_read
                                            \/ msgs[i].kind # "direct"
                                            \/ v \notin msgs[i].recipients })
           /\ msgs' = msgs
           /\ published' = <<>>]_vars

\* the count 1 has just been returned while the store holds two unread rows
\* for everybody: one direct, one announcement
C12_Witness ==
  /\ resp.op = "unread" /\ resp.count = 1
  /\ Len(msgs) = 2
  /\ \A i \in DOMAIN msgs : ~msgs[i].is_read /\ msgs[i].recipients = Users
  /\ \E i, j \in DOMAIN msgs :
       msgs[i].kind = "direct" /\ msgs[j].kind = "announcement"

\* --------------------------------------------------------------------- C13
\* C13: in every step no row is deleted, no row's content, sender, kind or
\* creation time changes, no recipient is removed and no read flag is
\* cleared; a row's recipient set grows only in a successful send that
\* returns that row, and then by the call's recipient.
C13_Lifecycle ==
  [][/\ Len(msgs') >= Len(msgs)
     /\ \A i \in DOMAIN msgs :
          /\ msgs'[i].content = msgs[i].content
          /\ msgs'[i].sender = msgs[i].sender
          /\ msgs'[i].kind = msgs[i].kind
          /\ msgs'[i].created_at = msgs[i].created_at
          /\ msgs[i].recipients \subseteq msgs'[i].recipients
          /\ msgs[i].is_read => msgs'[i].is_read
          /\ msgs'[i].recipients # msgs[i].recipients =>
               /\ AnsweredSend
               /\ resp'.id = i
               /\ msgs[i].kind = "direct"
               /\ msgs'[i].recipients = msgs[i].recipients \cup {SentTo}]_vars

\* a direct message that has gone through both mutations: it has two
\* recipients and is read
C13_Witness ==
  \E i \in DOMAIN msgs :
    /\ msgs[i].kind = "direct"
    /\ Cardinality(msgs[i].recipients) = 2
    /\ msgs[i].is_read

\* --------------------------------------------------------------------- C14
\* the contents that are empty after trimming
EmptyAfterTrim == { c \in RawContents : IsTrimOf(<<>>, c) }

\* the contents the handler takes for empty
TakenForEmpty == { c \in RawContents : Strip(c) = <<>> }

\* Send(a, b, c), decided early: a send that gets past the two checks leaves
\* its recipient in last', a send stopped by the first check is answered 400
\* and one stopped by the second 404
SendOf(a, b, c) ==
  /\ \/ b = last'.rcpt /\ last'.at = now
     \/ (b = 0 \/ c \in TakenForEmpty) /\ resp'.status = 400
     \/ ~UserExists(b) /\ resp'.status = 404
  /\ Send(a, b, c)

\* C14: a send whose content is empty after trimming is answered with the
\* validation error (400); a send with both fields present whose recipient
\* id matches no user is answered with NotFound (404); in both cases the
\* Message table is left as it was and nothing is sent to the broker.
C14_SendErrors ==
  [][resp'.op = "send" =>
       \A b \in RecipientInputs, c \in FanoutContents, a \in Users :
         SendOf(a, b, c) =>
           /\ c \in EmptyAfterTrim => resp'.status = 400
           /\ (c \notin EmptyAfterTrim /\ b # 0 /\ b \notin Users) =>
                resp'.status = 404
           /\ resp'.status \in {400, 404} =>
                /\ c \in EmptyAfterTrim \/ b \notin Users
                /\ msgs' = msgs
                /\ published' = <<>>]_vars

\* a send has just been answered NotFound while the store holds a message
\* it could have reused
C14_Witness ==
  /\ resp.op = "send" /\ resp.status = 404
  /\ \E i \in DOMAIN msgs :
       msgs[i].kind = "direct" /\ msgs[i].created_at = now

\* --------------------------------------------------------------------- C15
\* C15: getConversation(viewer, other) is answered with NotFound (404)
\* exactly when other matches no user, and then no row changes.
C15_ConversationNotFound ==
  [][resp'.op = "conv" =>
       \A v \in Users, u \in UserIdInputs :
         GetConversation(v, u) =>
           /\ u \notin Users => (resp'.status = 404 /\ msgs' = msgs)
           /\ u \in Users => resp'.status = 200]_vars

\* a conversation fetch has just been answered NotFound while an unread
\* direct message waits for some user
C15_Witness ==
  /\ resp.op = "conv" /\ resp.status = 404
  /\ \E v \in Users : UnreadCount(msgs, v) > 0

\* --------------------------------------------------------------------- C16
\* C16: whatever the broker does (unreachable when the process started,
\* down or slow when the send publishes), a send with an existing recipient
\* and non-empty content is answered 200 with the id and creation time of a
\* stored direct message of the sender that holds the trimmed content and
\* has the call's recipient among its recipients.
C16_SendSurvivesBroker ==
  [][resp'.op = "send" =>
       \A b \in Users, c \in FanoutContents \ EmptyAfterTrim, a \in Users :
         SendOf(a, b, c) =>
           /\ resp'.status = 200
           /\ resp'.id \in DOMAIN msgs'
           /\ msgs'[resp'.id].sender = a
           /\ msgs'[resp'.id].kind = "direct"
           /\ IsTrimOf(msgs'[resp'.id].content, c)
           /\ b \in msgs'[resp'.id].recipients
           /\ resp'.ts = msgs'[resp'.id].created_at]_vars

\* a send has just been answered 200 although every PUBLISH it sent was
\* refused, and its recipient is stored
C16_Witness ==
  /\ resp.op = "send" /\ resp.status = 200
  /\ REDIS_AVAILABLE /\ broker = "down"
  /\ published # <<>>
  /\ \A k \in DOMAIN published : published[k].outcome = "refused"
  /\ resp.id \in DOMAIN msgs
  /\ last.rcpt \in msgs[resp.id].recipients

\* --------------------------------------------------------------------- C17
\* the commands of the last step carry one payload, with the returned id, the
\* sender and the call's recipient, and it arrived on both users' channels
FannedOut ==
  /\ \A k \in DOMAIN published' :
       /\ published'[k].payload.message_id = resp'.id
       /\ published'[k].payload.sender_id = SentBy
       /\ published'[k].payload.recipient_id = SentTo
       /\ published'[k].payload.content = msgs'[resp'.id].content
       /\ published'[k].payload.timestamp = resp'.ts
  /\ \A ch \in {SentBy, SentTo} :
       \E k \in DOMAIN published' :
         published'[k].channel = ch /\ published'[k].outcome = "ok"

\* C17 as stated: every successful send made while the broker is reachable
\* publishes the payload on the recipient's and on the sender's channel.
C17_Original ==
  [][(AnsweredSend /\ broker = "up") => FannedOut]_vars

\* C17, amended: every successful send, new or reused, made while the broker
\* is reachable publishes the same payload on the recipient's and on the
\* sender's channel, once each, provided the broker was reachable when the
\* process started; when it was not, the send publishes nothing.
C17_FanOut ==
  [][(AnsweredSend /\ broker = "up") =>
       IF REDIS_AVAILABLE
       THEN FannedOut /\ Len(published') = 2
       ELSE published' = <<>>]_vars

\* a reusing send has just published on two different channels
C17_Witness ==
  /\ resp.op = "send" /\ resp.status = 200
  /\ REDIS_AVAILABLE /\ broker = "up"
  /\ Len(published) = 2
  /\ published[1].channel # published[2].channel
  /\ published[1].outcome = "ok" /\ published[2].outcome = "ok"
  /\ resp.id \in DOMAIN msgs
  /\ Cardinality(msgs[resp.id].recipients) = 2

\* --------------------------------------------------------------------- C19
\* C19: a successful send sends at most one PUBLISH to the recipient's
\* channel and at most one to the sender's (two to the one channel of a
\* self-message), also when a command fails or times out.
C19_Original ==
  [][AnsweredSend =>
       \A ch \in Users :
         Cardinality({ k \in DOMAIN published' :
                         published'[k].channel = ch })
           <= (IF SentBy = SentTo THEN 2 ELSE 1)]_vars

\* --------------------------------------------------------------------- C20
\* C20: when one flip of getConversation fails, the flips made before it
\* stay and the request is still answered with its response (200).
C20_Original ==
  [][(resp'.op = "conv" /\ resp'.status \notin {200, 404}) =>
       \A v \in Users, u \in Users :
         GetConversationSaveFails(v, u) =>
           /\ \A i \in DOMAIN msgs : msgs[i].is_read => msgs'[i].is_read
           /\ resp'.status = 200]_vars

\* --------------------------------------------------------------------- C18
\* C18: under every interleaving of the workers' steps, whenever a step
\* sends a PUBLISH, the Message table already holds a message with the
\* payload's id, sender and content whose recipients include the payload's
\* recipient.
C18_StoreBeforeFanOut ==
  [][\A k \in DOMAIN published' :
       LET p == published'[k].payload IN
       /\ p.message_id \in DOMAIN msgs
       /\ msgs[p.message_id].sender = p.sender_id
       /\ msgs[p.message_id].content = p.content
       /\ msgs[p.message_id].kind = "direct"
       /\ p.recipient_id \in msgs[p.message_id].recipients]_vars

\* a worker has just published for a message that another worker, which
\* reuses it for another recipient, has not yet added its recipient to
C18_Witness ==
  /\ published # <<>>
  /\ \E w \in Workers :
       /\ inflight[w].pc = "add"
       /\ inflight[w].id = published[1].payload.message_id
       /\ inflight[w].recipient # published[1].payload.recipient_id
       /\ inflight[w].recipient \notin msgs[inflight[w].id].recipients

\* --------------------------------------------------------------------- C23
\* the rule of the claim, for the row u
InitialsRule(u) ==
  LET named == Len(u.first_name) > 0 /\ Len(u.last_name) > 0
      letters == IF named THEN <<u.first_name[1], u.last_name[1]>>
                 ELSE IF Len(u.username) >= 2
                 THEN <<u.username[1], u.username[2]>>
                 ELSE u.username
  IN UpperStr(letters)

\* C23: the initials shown for a user, in a message view, in the summary of
\* the other party and in the fan-out payload alike, are the first letter of
\* the first name and the first letter of the last name, uppercased ("Ana",
\* "Lee" gives "AL"), or, when the first or the last name is empty, the
\* first two letters of the username, uppercased ("jdoe" gives "JD").
C23_Initials ==
  resp.op \in {"view", "summary", "payload"} =>
    LET u == users[resp.id] IN
    /\ resp.initials = InitialsRule(u)
    /\ (u.first_name = <<"A", "n", "a">> /\ u.last_name = <<"L", "e", "e">>)
         => resp.initials = <<"A", "L">>
    /\ ( /\ u.first_name = <<>> \/ u.last_name = <<>>
         /\ u.username = <<"j", "d", "o", "e">> )
         => resp.initials = <<"J", "D">>

\* the payload shows "JD" for a user who has a last name but no first name
C23_Witness ==
  /\ resp.op = "payload"
  /\ users[resp.id].first_name = <<>>
  /\ users[resp.id].last_name # <<>>
  /\ resp.initials = <<"J", "D">>

\* --------------------------------------------------------------------- C24
\* C24: a getConversation or a markRead of viewer V leaves getUnreadCount(U)
\* as it was for every other user U, also when a reused message has several
\* recipients.
C24_Original ==
  [][resp'.op \in {"conv", "markRead"} =>
       \A v \in Users, o \in UserIdInputs :
         (GetConversation(v, o) \/ MarkRead(v, o)) =>
           \A u \in Users \ {v} :
             UnreadCount(msgs', u) = UnreadCount(msgs, u)]_vars

\* --------------------------------------------------------------------- C25
\* C25: from the same state getConversation(viewer, other) and
\* markRead(viewer, other) leave the same messages read, for all viewer and
\* other, viewer = other included.
C25_Original ==
  [][AnsweredConversation =>
       \A v \in Users, o \in Users :
         GetConversation(v, o) =>
           \A i \in DOMAIN msgs :
             msgs'[i].is_read = MarkReadUpdate(msgs, v, o)[i].is_read]_vars

\* --------------------------------------------------------------------- C26
\* C26: a send that is answered with an error (400, 404 or 500) leaves the
\* Message table as it was; no row without recipients is left behind when
\* attaching the recipient fails after the row was created.
C26_Original ==
  [][(resp'.op = "send" /\ resp'.status \in {400, 404, 500}) =>
       /\ msgs' = msgs
       /\ \A i \in DOMAIN msgs' :
            (msgs'[i].kind = "direct" /\ msgs'[i].recipients = {}) =>
              (i \in DOMAIN msgs /\ msgs[i].recipients = {})]_vars

\* --------------------------------------------------------------------- C27
\* C27: a send that reuses a message leaves its creation time as it was and
\* answers with that time, which lies at most 5 seconds back; a send that
\* inserts answers with the current time; and no send returns a message of
\* its sender and content that was created more than 5 seconds ago, however
\* recently that message was reused. Identical sends at t, t+3 and t+6
\* therefore leave two messages.
C27_WindowAnchored ==
  [][AnsweredSend =>
       \A c \in RawContents :
         Sent(c) =>
           LET id == resp'.id IN
           /\ ~Inserted =>
                /\ msgs'[id].created_at = msgs[id].created_at
                /\ resp'.ts = msgs[id].created_at
                /\ now - resp'.ts <= DedupWindow
           /\ Inserted =>
                /\ msgs'[id].created_at = now
                /\ resp'.ts = now
           /\ \A i \in DOMAIN msgs :
                ( /\ msgs[i].sender = SentBy
                  /\ msgs[i].content = msgs'[id].content
                  /\ now - msgs[i].created_at > DedupWindow ) => id # i]_vars

\* three identical sends: the message created at 0 was reused (it has two
\* recipients) and at 6, three seconds after the clock read 3, a send of the
\* same sender and content has just inserted a second message
C27_Witness ==
  /\ resp.op = "send" /\ resp.status = 200
  /\ Len(msgs) = 2 /\ resp.id = 2 /\ resp.ts = 6 /\ now = 6
  /\ msgs[1].kind = "direct" /\ msgs[2].kind = "direct"
  /\ msgs[1].created_at = 0
  /\ Cardinality(msgs[1].recipients) = 2
  /\ msgs[2].sender = msgs[1].sender
  /\ msgs[2].content = msgs[1].content

\* --------------------------------------------------------------------- C28
\* C28: a send whose recipient id is missing or whose content is empty
\* after trimming is answered with the validation error (400), also when
\* the recipient id matches no user; NotFound (404) is the answer exactly
\* when both fields are present and the recipient id matches no user.
C28_ValidationFirst ==
  [][resp'.op = "send" =>
       \A b \in RecipientInputs, c \in FanoutContents, a \in Users :
         SendOf(a, b, c) =>
           /\ (b = 0 \/ c \in EmptyAfterTrim) => resp'.status = 400
           /\ resp'.status = 404 <=>
                (b # 0 /\ c \notin EmptyAfterTrim /\ b \notin Users)
           /\ resp'.status = 400 => (b = 0 \/ c \in EmptyAfterTrim)]_vars

\* a send has just been answered with the validation error, and nothing
\* else, while the store holds a message a send could reuse
C28_Witness ==
  /\ resp = [Idle EXCEPT !.op = "send", !.status = 400]
  /\ published = <<>>
  /\ \E i \in DOMAIN msgs :
       /\ msgs[i].kind = "direct"
       /\ msgs[i].recipients # {}
       /\ now - msgs[i].created_at <= DedupWindow

\* --------------------------------------------------------------------- C22
\* send_message_api as a function of the store ms, the clock t, the flag
\* av and the broker bs: the store, the response and the commands it leaves
SendEffect(ms, t, lst, av, bs, sender, recipient_id, raw) ==
  LET content == Strip(raw)
      req == [Idle EXCEPT !.op = "send"]
  IN
  IF recipient_id = 0 \/ content = <<>> THEN
    [msgs |-> ms, resp |-> [req EXCEPT !.status = 400], last |-> lst,
     sent |-> <<>>]
  ELSE IF ~UserExists(recipient_id) THEN
    [msgs |-> ms, resp |-> [req EXCEPT !.status = 404], last |-> lst,
     sent |-> <<>>]
  ELSE
    LET existing == FirstOf(DedupMatches(ms, sender, content,
                                         t - DedupWindow))
        id == IF existing # 0 THEN existing ELSE NextId(ms)
        message == IF existing # 0
                   THEN AddRecipient(ms[existing], recipient_id)
                   ELSE AddRecipient(NewDirect(sender, content, t),
                                     recipient_id)
        out == publish_message(av, bs, message, id, sender, recipient_id)
    IN [msgs |-> IF existing # 0 THEN [ms EXCEPT ![existing] = message]
                 ELSE Append(ms, message),
        resp |-> SendResponse(req, id, message, out),
        last |-> [id |-> id, rcpt |-> recipient_id, at |-> t],
        sent |-> out.sent]

\* get_conversation_messages as a function of the store, the flag, the
\* broker and the presence of the other party's key, for the order ord the
\* query returned
ConversationEffect(ms, av, bs, present, viewer, user_id, ord) ==
  LET req == [Idle EXCEPT !.op = "conv"] IN
  IF ~UserExists(user_id)
  THEN [msgs |-> ms, resp |-> [req EXCEPT !.status = 404]]
  ELSE [msgs |-> FlipOnOpen(ms, viewer, ConversationIds(ms, viewer, user_id)),
        resp |-> ConversationResponse(
                   req, ord, redis_exists(av, bs, present))]

\* the broker answers no command of this process
Unreachable(av, bs) == ~av \/ bs # "up"

\* what a send leaves does not depend on the broker, and no command is
\* answered when the broker is unreachable
SendIgnoresBroker(a, b, c) ==
  /\ LET e == SendEffect(msgs, now, last, REDIS_AVAILABLE, broker, a, b, c)
     IN /\ msgs' = e.msgs /\ resp' = e.resp /\ last' = e.last
        /\ published' = e.sent
  /\ \A av \in BOOLEAN, bs \in BrokerStates :
       LET e == SendEffect(msgs, now, last, av, bs, a, b, c) IN
       /\ e.msgs = msgs' /\ e.resp = resp' /\ e.last = last'
       /\ Unreachable(av, bs) =>
            \A k \in DOMAIN e.sent : e.sent[k].outcome # "ok"

\* what a conversation fetch leaves depends on the broker in the online flag
\* only, which is off, in a 200 response, when the broker is unreachable
ConversationIgnoresBroker(v, o) ==
  /\ LET e == ConversationEffect(msgs, REDIS_AVAILABLE, broker,
                                 o \in presence, v, o, resp'.ids)
     IN msgs' = e.msgs /\ resp' = e.resp
  /\ \A av \in BOOLEAN, bs \in BrokerStates, present \in BOOLEAN :
       LET e == ConversationEffect(msgs, av, bs, present, v, o, resp'.ids)
       IN
       /\ e.msgs = msgs'
       /\ [e.resp EXCEPT !.online = FALSE] = [resp' EXCEPT !.online = FALSE]
       /\ Unreachable(av, bs) => ~e.resp.online
       /\ (~Unreachable(av, bs) /\ o \in Users) => e.resp.online = present

\* C22: the Message table and the result that a send, a getConversation, a
\* markRead or a getUnreadCount leaves are the same for every state of the
\* broker and of the availability flag, except that with an unreachable
\* broker the online flag is reported off, in a response that is otherwise
\* the same, and no PUBLISH is answered.
C22_BrokerNotTruth ==
  [][/\ resp'.op = "send" =>
          \A b \in RecipientInputs, c \in ConcurrentContents, a \in Users :
            SendOf(a, b, c) => SendIgnoresBroker(a, b, c)
     /\ resp'.op = "conv" =>
          \A v \in Users, o \in UserIdInputs :
            GetConversation(v, o) => ConversationIgnoresBroker(v, o)
     /\ resp'.op = "markRead" =>
          \A v \in Users, o \in UserIdInputs :
            MarkRead(v, o) =>
              /\ msgs' = MarkReadUpdate(msgs, v, o)
              /\ resp' = [Idle EXCEPT !.op = "markRead", !.status = 200]
              /\ published' = <<>>
     /\ resp'.op = "unread" =>
          \A v \in Users :
            GetUnreadCount(v) =>
              /\ msgs' = msgs
              /\ resp' = [Idle EXCEPT !.op = "unread", !.status = 200,
                                      !.count = UnreadCount(msgs, v)]
              /\ published' = <<>>]_vars

\* a conversation has just been fetched from a process whose broker refuses
\* connections: the other party, whose presence key is set, is shown offline
\* and an unread message was marked read all the same
C22_Witness ==
  /\ resp.op = "conv" /\ resp.status = 200
  /\ REDIS_AVAILABLE /\ broker = "down"
  /\ presence = Users
  /\ ~resp.online
  /\ resp.ids # <<>>
  /\ \E k \in DOMAIN resp.ids : msgs[resp.ids[k]].is_read

\* --------------------------------------------------------------------- C30
\* C30: the availability flag is what the connection check at module load
\* found and no step changes it. While it is off, no step sends a command
\* and every online lookup answers offline, also when the broker is
\* reachable again and holds the key. While it is on and the broker is not
\* reachable, a send still attempts its commands, none is answered, and no
\* request fails: sends and conversation fetches are answered as usual, with
\* the other party shown offline.
C30_FlagDecidedOnce ==
  /\ REDIS_AVAILABLE = (broker = "up")
  /\ [][/\ REDIS_AVAILABLE' = REDIS_AVAILABLE
        /\ ~REDIS_AVAILABLE => (published' = <<>> /\ ~resp'.online)
        /\ (REDIS_AVAILABLE /\ broker # "up") =>
             /\ resp'.status # 500
             /\ ~resp'.online
             /\ AnsweredSend =>
                  /\ published' # <<>>
                  /\ \A k \in DOMAIN published' :
                       published'[k].outcome # "ok"
        /\ (REDIS_AVAILABLE /\ broker = "up" /\ AnsweredSend) =>
             published' # <<>>]_vars

\* the process started without a broker; the broker is reachable now and
\* holds every user's key, and a conversation fetch that returned messages
\* has just shown the other party offline
C30_Witness ==
  /\ ~REDIS_AVAILABLE /\ broker = "up"
  /\ presence = Users
  /\ resp.op = "conv" /\ resp.status = 200
  /\ resp.ids # <<>>
  /\ ~resp.online

\* --------------------------------------------------------------------- C21
\* C21: when two workers have both carried a send of the same sender and
\* content up to its response, either both return one message, whose
\* recipients include both calls' recipients, or they return two different
\* messages of that sender and content, each of which includes the
\* recipient of the call that returns it.
C21_RaceOutcomes ==
  \A w1 \in Workers, w2 \in Workers :
    LET a == inflight[w1]
        b == inflight[w2]
    IN ( /\ w1 # w2
         /\ a.pc = "respond" /\ b.pc = "respond"
         /\ a.sender = b.sender /\ a.content = b.content )
       => /\ a.id \in DOMAIN msgs /\ b.id \in DOMAIN msgs
          /\ \A r \in {a, b} :
               /\ msgs[r.id].kind = "direct"
               /\ msgs[r.id].sender = r.sender
               /\ msgs[r.id].content = r.content
          /\ \/ /\ a.id = b.id
                /\ {a.recipient, b.recipient} \subseteq msgs[a.id].recipients
             \/ /\ a.id # b.id
                /\ a.recipient \in msgs[a.id].recipients
                /\ b.recipient \in msgs[b.id].recipients

\* the outcome only a race has: two sends of one sender and content, begun
\* under the same reading of the clock, are about to return two messages
\* created at the same time, each with the recipient of its own call only
C21_Witness ==
  /\ \A w \in Workers : inflight[w].pc = "respond"
  /\ inflight[1].id # inflight[2].id
  /\ inflight[1].recipient # inflight[2].recipient
  /\ inflight[1].created_at = inflight[2].created_at
  /\ \A w \in Workers :
       msgs[inflight[w].id].recipients = {inflight[w].recipient}

\* --------------------------------------------------------------------- C29
\* C29: the message a send returned holds that send's recipient from then
\* on, whatever the other workers, getConversation and markRead do, and
\* once every call has returned no direct message is without a recipient.
C29_NoLostRecipient ==
  /\ last.id # 0 =>
       /\ last.id \in DOMAIN msgs
       /\ last.rcpt \in msgs[last.id].recipients
  /\ (\A w \in Workers : inflight[w].pc = "idle") =>
       \A i \in DOMAIN msgs :
         msgs[i].kind = "direct" => msgs[i].recipients # {}

\* every call has returned; two messages of one sender and content were
\* created at the same time by racing sends, and one of them has been read
C29_Witness ==
  /\ \A w \in Workers : inflight[w].pc = "idle"
  /\ last.id # 0
  /\ Len(msgs) = 2
  /\ msgs[1].created_at = msgs[2].created_at
  /\ msgs[1].content = msgs[2].content
  /\ msgs[1].recipients # msgs[2].recipients
  /\ msgs[1].is_read /\ ~msgs[2].is_read

====
